---- MODULE Spec2Model ----
(***************************************************************************)
(* Model of scripts/place_and_route.py: the benchmarking harness that runs *)
(* an external place-and-route tool over circuits x seeds x option sets    *)
(* (Caller, PlaceCaller, ParameterSweeper) and shapes the report tables.   *)
(*                                                                         *)
(* A Python str is modelled as a sequence of atoms (an atom is a piece of  *)
(* text that the program never looks inside: one character of a circuit    *)
(* list, a placeholder, a flag).  A list of str is a sequence of such      *)
(* sequences.                                                              *)
(***************************************************************************)
EXTENDS Integers, Sequences, FiniteSets, TLC

VARIABLES
    circuits,           \* ParameterSweeper.circuits: the circuit list as one str
    fixed_options,      \* argument of sweep()
    variable_options,   \* argument of sweep(): declared <<name, range>> pairs
    num_random_seeds,   \* argument of sweep()
    rngState,           \* state of the process-wide generator of module random
    tmpExists,          \* whether the scratch directory 'tmp' exists
    option_sets,        \* ParameterSweeper.option_sets
    callers,            \* ParameterSweeper.callers
    caller,             \* the PlaceCaller that place_all is running, or NoCaller
    seedIdx,            \* position of the loop of line 54 (1-based)
    circuitIdx,         \* position of the loop of line 62 (1-based)
    pc,                 \* where the process is
    exitStatus,         \* process exit status, -1 while running
    failure,            \* what ended the process abnormally, "" if nothing
    calls,              \* history: every external invocation, in start order
    ret,                \* value returned (or exception raised) by the last accessor
    inFlight,           \* child processes started and not yet waited for
    scratch,            \* whose files 'tmp' holds: configuration numbers, 0 = older
    rmtrees             \* history: every removal of 'tmp' that was carried out

vars == <<circuits, fixed_options, variable_options, num_random_seeds, rngState,
          tmpExists, option_sets, callers, caller, seedIdx, circuitIdx, pc,
          exitStatus, failure, calls, ret, inFlight, scratch, rmtrees>>

-----------------------------------------------------------------------------
(* Bounds of the model *)

MaxCircuits == 2        \* names in the circuit list string
MaxSeeds == 2           \* num_random_seeds
MaxRange == 2           \* candidate values per swept option
MaxCalls == 4           \* invocations one sweep needs to complete
MaxTokens == 2          \* tokens of a command template
MaxTokenLen == 2        \* atoms of one token of a command template
MaxNameLen == 1         \* atoms of a circuit name put into a template

-----------------------------------------------------------------------------
(* Generic helpers *)

RECURSIVE SumSeq(_)
SumSeq(s) == IF s = <<>> THEN 0 ELSE Head(s) + SumSeq(Tail(s))

RECURSIVE Flatten(_)
Flatten(ss) == IF ss = <<>> THEN <<>> ELSE Head(ss) \o Flatten(Tail(ss))

RECURSIVE Gcd(_, _)
Gcd(a, b) == IF b = 0 THEN a ELSE Gcd(b, a % b)

Range(s) == {s[i] : i \in DOMAIN s}

SeqsUpTo(S, n) == UNION {[1..k -> S] : k \in 0..n}

Permutations1(n) == {p \in [1..n -> 1..n] : \A i, j \in 1..n : p[i] = p[j] => i = j}

-----------------------------------------------------------------------------
(* str operations *)

\* code points of the characters that occur in circuit names
Ord(ch) == CASE ch = " " -> 32 [] ch = "a" -> 97 [] ch = "b" -> 98 [] OTHER -> 0

\* s < t for two str, as Python compares them
RECURSIVE StrLess(_, _)
StrLess(s, t) ==
    IF t = <<>> THEN FALSE
    ELSE IF s = <<>> THEN TRUE
    ELSE IF Head(s) = Head(t) THEN StrLess(Tail(s), Tail(t))
    ELSE Ord(Head(s)) < Ord(Head(t))

\* s.split(sep) for a one-character separator
RECURSIVE SplitAcc(_, _, _)
SplitAcc(s, sep, word) ==
    IF s = <<>> THEN <<word>>
    ELSE IF Head(s) = sep THEN <<word>> \o SplitAcc(Tail(s), sep, <<>>)
    ELSE SplitAcc(Tail(s), sep, Append(word, Head(s)))

Split(s, sep) == SplitAcc(s, sep, <<>>)

\* sep.join(words)
RECURSIVE Join(_, _)
Join(words, sep) ==
    IF words = <<>> THEN <<>>
    ELSE IF Len(words) = 1 THEN words[1]
    ELSE words[1] \o sep \o Join(Tail(words), sep)

\* s.replace(old, new) where old is one atom
RECURSIVE Replace(_, _, _)
Replace(s, old, new) ==
    IF s = <<>> THEN <<>>
    ELSE (IF Head(s) = old THEN new ELSE <<Head(s)>>) \o Replace(Tail(s), old, new)

\* sorted(S) for a set of str
RECURSIVE SortedStrs(_)
SortedStrs(S) ==
    IF S = {} THEN <<>>
    ELSE LET m == CHOOSE x \in S : \A y \in S \ {x} : StrLess(x, y)
         IN <<m>> \o SortedStrs(S \ {m})

\* str(v) of an option value: an int prints in decimal, a str is itself
IntValue(i) == [t |-> "int", i |-> i, s |-> <<>>]
StrValue(s) == [t |-> "str", i |-> 0, s |-> s]
PyStr(v) == IF v.t = "int" THEN <<ToString(v.i)>> ELSE v.s

-----------------------------------------------------------------------------
(* Numbers and table cells.  Every cell of a report row is a record of the *)
(* same shape: a text cell carries a str, a number cell carries the value  *)
(* of a geometric mean.                                                    *)

Text(s) == [k |-> "text", s |-> s, n |-> 0, d |-> 0]
Blank == Text(<<>>)                     \* the cell ''
Nan == [k |-> "nan", s |-> <<>>, n |-> 0, d |-> 0]
Zero == [k |-> "zero", s |-> <<>>, n |-> 0, d |-> 0]
Pow2(num, den) == [k |-> "pow2", s |-> <<>>, n |-> num, d |-> den]   \* 2^(num/den)

\* the numeric texts the tool prints in the model, and float() of each;
\* every positive value is a power of two so that a geometric mean is exact
FloatTable ==
    [txt \in {"1", "2", "4", "8", "2e0", "0", "-1"} |->
        CASE txt = "1" -> 1 [] txt = "2" -> 2 [] txt = "4" -> 4 [] txt = "8" -> 8
          [] txt = "2e0" -> 2 [] txt = "0" -> 0 [] txt = "-1" -> -1]

\* float(txt): [ok, v]; ok is FALSE where Python raises ValueError
ParseFloat(txt) ==
    IF txt \in DOMAIN FloatTable THEN [ok |-> TRUE, v |-> FloatTable[txt]]
    ELSE [ok |-> FALSE, v |-> 0]

Log2(v) == CHOOSE e \in 0..3 : 2^e = v

\* scipy.stats.gmean(samples) = exp(mean(log(samples)))
Gmean(samples) ==
    IF samples = <<>> THEN Nan
    ELSE IF \E i \in DOMAIN samples : samples[i] < 0 THEN Nan
    ELSE IF \E i \in DOMAIN samples : samples[i] = 0 THEN Zero
    ELSE LET sum == SumSeq([i \in DOMAIN samples |-> Log2(samples[i])])
             g == Gcd(sum, Len(samples))
         IN Pow2(sum \div g, Len(samples) \div g)

-----------------------------------------------------------------------------
(* PlaceCaller class attributes and the extraction pattern *)

metrics == <<"runtime", "BB cost", "max delay">>

\* metric.lower().replace(' ', '_')
GroupName(metric) ==
    CASE metric = "runtime" -> "runtime"
      [] metric = "BB cost" -> "bb_cost"
      [] metric = "max delay" -> "max_delay"

\* A stdout is a sequence of lines [label, text], printed "label | text".
\* [0-9.e+-]+ : the captured text of a line, or none
NumericTexts == {"1", "2", "4", "8", "2e0", "0", "-1", "."}

Line(label, text) == [label |-> label, text |-> text]

\* stats_pattern.search(out) with re.DOTALL: a 'time' line, later a 'BB cost'
\* line, later a 'max delay' line, each with a numeric text; every '.*' is
\* greedy, so each group takes the last line that still lets the rest match.
\* The result maps group names to captured texts; NoMatch is Python's None.
NoMatch == [matched |-> FALSE, runtime |-> "", bb_cost |-> "", max_delay |-> ""]

stats_regex(out) ==
    LET Is(i, label) == out[i].label = label /\ out[i].text \in NumericTexts
        Triples == {t \in (DOMAIN out) \X (DOMAIN out) \X (DOMAIN out) :
                        /\ t[1] < t[2] /\ t[2] < t[3]
                        /\ Is(t[1], "time") /\ Is(t[2], "BB cost") /\ Is(t[3], "max delay")}
    IN IF Triples = {} THEN NoMatch
       ELSE LET i == CHOOSE a \in {t[1] : t \in Triples} :
                        \A b \in {t[1] : t \in Triples} : b <= a
                Js == {t[2] : t \in {u \in Triples : u[1] = i}}
                j == CHOOSE a \in Js : \A b \in Js : b <= a
                Ks == {t[3] : t \in {u \in Triples : u[1] = i /\ u[2] = j}}
                k == CHOOSE a \in Ks : \A b \in Ks : b <= a
            IN [matched |-> TRUE, runtime |-> out[i].text,
                bb_cost |-> out[j].text, max_delay |-> out[k].text]

\* match.group(group_name)
Group(match, name) ==
    CASE name = "runtime" -> match.runtime
      [] name = "bb_cost" -> match.bb_cost
      [] name = "max_delay" -> match.max_delay

\* what the external tool can print on stdout
Stdouts ==
    { <<Line("time", "1"), Line("BB cost", "2"), Line("max delay", "4")>>,
      <<Line("time", "2"), Line("time", "4"), Line("BB cost", "8"), Line("max delay", "2e0")>>,
      <<Line("time", "0"), Line("BB cost", "-1"), Line("max delay", "1")>>,
      <<Line("time", "2"), Line("BB cost", "."), Line("max delay", "4")>>,
      <<Line("BB cost", "2"), Line("time", "1"), Line("max delay", "4")>>,
      <<Line("time", "n/a"), Line("BB cost", "2"), Line("max delay", "4")>>,
      <<>> }

\* what it can print on stderr
Stderrs == { <<>>, <<"Exception in thread main">> }

-----------------------------------------------------------------------------
(* module random: a deterministic generator with process-wide state.  The  *)
(* Mersenne Twister is replaced by a small linear congruential generator;  *)
(* what matters is that seed(a) fixes the state and every draw advances it. *)

RngModulus == 65537
RandMax == 2147483647                     \* 2**31 - 1

RandomSeed(a) == a % RngModulus           \* random.seed(a)
RngStep(state) == (state * 75 + 74) % RngModulus
Randrange(state, n) == RngStep(state) % n \* value of random.randrange(n)

\* [random.randrange(n) for i in range(count)] from a generator state:
\* the list and the state the generator is left in
RECURSIVE DrawSeeds(_, _, _)
DrawSeeds(state, n, count) ==
    IF count = 0 THEN [list |-> <<>>, state |-> state]
    ELSE LET rest == DrawSeeds(RngStep(state), n, count - 1)
         IN [list |-> <<Randrange(state, n)>> \o rest.list, state |-> rest.state]

-----------------------------------------------------------------------------
(* ParameterSweeper.build_option_sets *)

\* itertools.product(*ranges): tuples in order, the last range varying fastest
RECURSIVE Product(_)
Product(ranges) ==
    IF ranges = <<>> THEN << <<>> >>
    ELSE LET rest == Product(Tail(ranges))
             first == Head(ranges)
         IN Flatten([i \in 1..Len(first) |->
                        [j \in 1..Len(rest) |-> <<first[i]>> \o rest[j]]])

\* option_ranges.keys() and .values() of a mapping declared as a sequence of
\* [name, range].  What the interpreter hands back is not fixed by the code:
\* a list in the mapping's iteration order, which for a plain dict of the
\* interpreters that return a list is arbitrary (the same for keys and
\* values), or a view in declaration order that cannot be subscripted.
DictKeys(option_ranges) ==
    {[subscriptable |-> FALSE, order |-> [i \in 1..Len(option_ranges) |-> i]]}
    \cup {[subscriptable |-> TRUE, order |-> p] : p \in Permutations1(Len(option_ranges))}

\* the body of build_option_sets for one outcome of keys(): the option sets,
\* or TypeError raised by option_names[i]
build_option_sets(option_ranges, keys) ==
    LET option_names == [i \in 1..Len(option_ranges) |-> option_ranges[keys.order[i]].name]
        ranges == [i \in 1..Len(option_ranges) |-> option_ranges[keys.order[i]].range]
        option_values == Product(ranges)
        OptionSet(option_value) ==
            Flatten([i \in 1..Len(option_names) |->
                        <<option_names[i], PyStr(option_value[i])>>])
    IN IF option_values # <<>> /\ Len(option_names) > 0 /\ ~keys.subscriptable
       THEN [raised |-> "TypeError", option_sets |-> <<>>]
       ELSE [raised |-> "",
             option_sets |-> [t \in 1..Len(option_values) |-> OptionSet(option_values[t])]]

-----------------------------------------------------------------------------
(* Caller / PlaceCaller *)

Architecture == <<"arch.xml">>      \* constructor argument architecture
CircuitsFolder == <<"benchmarks">>  \* constructor argument circuits_folder

\* a caller record: the attributes of a PlaceCaller object; hasResults,
\* hasSeeds and hasCommand tell whether the attribute has been assigned yet
NoCaller == [circuits |-> <<>>, circuit |-> <<>>, architecture |-> <<>>,
             command |-> <<>>, hasCommand |-> FALSE,
             seeds |-> <<>>, hasSeeds |-> FALSE,
             results |-> <<>>, hasResults |-> FALSE]

\* PlaceCaller.__init__ (and Caller.__init__): a caller that has not run yet
PlaceCaller(architecture, circuits_folder, circuitList) ==
    [circuits |-> Split(circuitList, " "),
     circuit |-> circuits_folder \o <<"/", "{circuit}", ".blif">>,
     architecture |-> architecture,
     command |-> <<>>, hasCommand |-> FALSE,
     seeds |-> <<>>, hasSeeds |-> FALSE,
     results |-> <<>>, hasResults |-> FALSE]

build_command(architecture, circuit, options) ==
    << <<"java">>, <<"-cp">>, <<"bin">>, <<"interfaces.CLI">>,
       architecture, circuit,
       <<"--output_place_file">>, <<"tmp/", "{circuit}", ".place">>,
       <<"--random_seed">>, <<"{seed}">> >> \o options

\* only the circuit placeholder is filled in
circuit_command_KeepsSeed(command, circuit, seed) ==
    [i \in 1..Len(command) |-> Replace(command[i], "{circuit}", circuit)]

\* the command line call_circuit hands to Popen
circuit_command(command, circuit, seed) ==
    [i \in 1..Len(command) |->
        Replace(Replace(command[i], "{circuit}", circuit), "{seed}", <<ToString(seed)>>)]

\* lines 46-50: an empty sample list per circuit and metric
EmptyResults(circuitNames) ==
    [c \in Range(circuitNames) |-> [m \in Range(metrics) |-> <<>>]]

\* lines 79-81 for the metrics from position k on: every metric is converted
\* and appended in turn; a ValueError leaves what was appended before it
\* every group is converted before the first sample is appended
AppendMetrics_ConvertsFirst(results, circuit, match, k) ==
    IF \E j \in k..Len(metrics) : ~ParseFloat(Group(match, GroupName(metrics[j]))).ok
    THEN [raised |-> "ValueError", results |-> results]
    ELSE [raised |-> "",
          results |-> [results EXCEPT ![circuit] =
                         [m \in Range(metrics) |->
                            IF \E j \in k..Len(metrics) : metrics[j] = m
                            THEN Append(@[m], ParseFloat(Group(match, GroupName(m))).v)
                            ELSE @[m]]]]

\* the new sample is put in front of the earlier ones
RECURSIVE AppendMetrics_Prepends(_, _, _, _)
AppendMetrics_Prepends(results, circuit, match, k) ==
    IF k > Len(metrics) THEN [raised |-> "", results |-> results]
    ELSE LET metric == metrics[k]
             value == ParseFloat(Group(match, GroupName(metric)))
         IN IF ~value.ok THEN [raised |-> "ValueError", results |-> results]
            ELSE AppendMetrics_Prepends(
                    [results EXCEPT ![circuit][metric] = <<value.v>> \o @],
                    circuit, match, k + 1)

RECURSIVE AppendMetrics(_, _, _, _)
AppendMetrics(results, circuit, match, k) ==
    IF k > Len(metrics) THEN [raised |-> "", results |-> results]
    ELSE LET metric == metrics[k]
             value == ParseFloat(Group(match, GroupName(metric)))
         IN IF ~value.ok THEN [raised |-> "ValueError", results |-> results]
            ELSE AppendMetrics(
                    [results EXCEPT ![circuit][metric] = Append(@, value.v)],
                    circuit, match, k + 1)

-----------------------------------------------------------------------------
(* Accessors and report tables.  A table is a sequence of rows, a row a    *)
(* sequence of cells; the rows [] and '' both write an empty line and are  *)
(* the empty row.  An operator that can raise returns [raised, ...].       *)

BlankRow == <<>>

\* names bound in the module's global namespace (imports, def and class)
ModuleNames ==
    {"subprocess", "errno", "stats", "copy", "itertools", "random", "re", "csv",
     "sys", "os", "glob", "shutil", "silentremove", "Caller", "PlaceCaller",
     "ParameterSweeper"}

get_command(c) == Join(c.command, <<" ">>)

\* the list metric_results that get_geomean builds (lines 123-125)
metric_results(c, metric) ==
    Flatten([i \in 1..Len(c.circuits) |-> c.results[c.circuits[i]][metric]])

get_geomean(c, metric) == Gmean(metric_results(c, metric))

get_geomeans(c) == [k \in 1..Len(metrics) |-> get_geomean(c, metrics[k])]

\* Caller.get_results: the header needs the attribute command, every circuit
\* row calls the global name geomean, which raises NameError unless the
\* module binds it (the rows are written with Gmean for the case it is bound)
get_results(c) ==
    LET header == <<Text(<<"benchmark">>)>>
                  \o [k \in 1..Len(metrics) |-> Text(<<metrics[k]>>)]
                  \o <<Text(get_command(c))>>
        names == SortedStrs(DOMAIN c.results)
        Row(circuit) ==
            <<Text(circuit)>>
            \o [k \in 1..Len(metrics) |-> Gmean(c.results[circuit][metrics[k]])]
    IN IF ~c.hasCommand THEN [raised |-> "AttributeError", rows |-> <<>>]
       ELSE IF names # <<>> /\ metrics # <<>> /\ "geomean" \notin ModuleNames
       THEN [raised |-> "NameError", rows |-> <<>>]
       ELSE [raised |-> "",
             rows |-> <<header>> \o [i \in 1..Len(names) |-> Row(names[i])]]

\* Caller.save_results: the rows handed to the csv writer
caller_save_results(c) ==
    LET r == get_results(c)
    IN IF r.raised # "" THEN r
       ELSE [raised |-> "",
             rows |-> r.rows \o <<BlankRow>>
                      \o << <<Text(<<"geomeans">>)>> \o get_geomeans(c) >>]

\* every data row has its metric value in column 1, without the staircase
get_pareto_table_NoStaircase(sets, cs, metric) ==
    <<<<Text(<<metric>>)>> \o [i \in 1..Len(sets) |-> Text(Join(sets[i], <<" ">>))]>>
    \o [i \in 1..Len(cs) |->
            <<get_geomean(cs[i], "runtime"), get_geomean(cs[i], metric)>>]

\* ParameterSweeper.get_pareto_table
get_pareto_table(sets, cs, metric) ==
    LET header == <<Text(<<metric>>)>>
                  \o [i \in 1..Len(sets) |-> Text(Join(sets[i], <<" ">>))]
        Row(i) == <<get_geomean(cs[i], "runtime")>>
                  \o [b \in 1..(i - 1) |-> Blank]
                  \o <<get_geomean(cs[i], metric)>>
    IN <<header>> \o [i \in 1..Len(cs) |-> Row(i)]

\* results of the callers from position i on, each followed by a blank row
\* (lines 191-193)
RECURSIVE CallerBlocks(_, _)
CallerBlocks(cs, i) ==
    IF i > Len(cs) THEN [raised |-> "", rows |-> <<>>]
    ELSE LET r == get_results(cs[i])
         IN IF r.raised # "" THEN r
            ELSE LET rest == CallerBlocks(cs, i + 1)
                 IN IF rest.raised # "" THEN rest
                    ELSE [raised |-> "", rows |-> r.rows \o <<BlankRow>> \o rest.rows]

\* ParameterSweeper.save_results: the rows handed to the csv writer
sweeper_save_results(sets, cs) ==
    IF cs = <<>> THEN [raised |-> "IndexError", rows |-> <<>>]
    ELSE LET seeds == cs[1].seeds
             seeds_string == Join([i \in 1..Len(seeds) |-> <<ToString(seeds[i])>>], <<", ">>)
             head == << <<Text(<<"Random seeds: ">> \o seeds_string)>> >>
                     \o get_pareto_table(sets, cs, "BB cost")
                     \o <<BlankRow>>
                     \o get_pareto_table(sets, cs, "max delay")
                     \o <<BlankRow, BlankRow>>
             blocks == CallerBlocks(cs, 1)
         IN IF blocks.raised # "" THEN blocks
            ELSE [raised |-> "", rows |-> head \o blocks.rows]

-----------------------------------------------------------------------------
(* Inputs *)

\* circuit list strings: up to MaxCircuits names separated by single blanks
\* (a name may repeat; no name at all is the empty string)
CircuitNames == { <<"a">>, <<"b">> }
CircuitLists == {Join(ws, <<" ">>) : ws \in SeqsUpTo(CircuitNames, MaxCircuits)}

OptionNames == << <<"a">>, <<"b">> >>
OptionValues(name) ==
    IF name = <<"a">> THEN {IntValue(1), IntValue(2)}
    ELSE {StrValue(<<"x">>), StrValue(<<"y">>)}

\* mappings option name -> candidate values, as declared
OptionRanges ==
    LET NameLists == {ns \in SeqsUpTo(Range(OptionNames), Len(OptionNames)) :
                         \A i, j \in DOMAIN ns : ns[i] = ns[j] => i = j}
    IN UNION {
        {m \in [1..Len(ns) -> [name : Range(OptionNames),
                               range : UNION {SeqsUpTo(OptionValues(n), MaxRange) :
                                                n \in Range(OptionNames)}]] :
            \A i \in 1..Len(ns) :
                /\ m[i].name = ns[i]
                /\ m[i].range \in SeqsUpTo(OptionValues(ns[i]), MaxRange)}
        : ns \in NameLists}

\* the mappings a sweep is run on in the model: at most one swept option
SweptRanges == {m \in OptionRanges : Len(m) <= 1 /\ \A i \in DOMAIN m : m[i].name = <<"a">>}

\* the option list that every configuration of the sweep shares
FixedOptions == { << <<"--fast">> >> }

\* number of option sets a mapping expands to
RECURSIVE NumOptionSets(_)
NumOptionSets(option_ranges) ==
    IF option_ranges = <<>> THEN 1
    ELSE Len(Head(option_ranges).range) * NumOptionSets(Tail(option_ranges))

NoRet == [op |-> "", idx |-> 0, metric |-> "", raised |-> "",
          rows |-> <<>>, value |-> Blank, pooled |-> <<>>]

-----------------------------------------------------------------------------
(* The process: a ParameterSweeper is constructed, sweep() is called, and   *)
(* when it returns the accessors and save_results may be called.           *)

Init ==
    /\ circuits \in CircuitLists
    /\ fixed_options \in FixedOptions
    /\ variable_options \in SweptRanges
    /\ num_random_seeds \in 0..MaxSeeds
    /\ Len(Split(circuits, " ")) * num_random_seeds * NumOptionSets(variable_options)
            <= MaxCalls
    /\ rngState \in {0, 4242}
    /\ tmpExists \in BOOLEAN
    /\ option_sets = <<>>
    /\ callers = <<>>
    /\ caller = NoCaller
    /\ seedIdx = 0
    /\ circuitIdx = 0
    /\ pc = "sweep"
    /\ exitStatus = -1
    /\ failure = ""
    /\ calls = <<>>
    /\ ret = NoRet
    /\ inFlight = 0
    /\ scratch = IF tmpExists THEN {0} ELSE {}
    /\ rmtrees = <<>>

inputs == <<circuits, fixed_options, variable_options, num_random_seeds>>

\* the process ends: sys.exit(status), or an exception nobody catches
Exit(status, why) ==
    /\ pc' = "exited"
    /\ exitStatus' = status
    /\ failure' = why

\* sweep(), lines 171-173: build_option_sets, then callers = []
SweepBuild ==
    /\ pc = "sweep"
    /\ \E keys \in DictKeys(variable_options) :
         LET r == build_option_sets(variable_options, keys)
         IN /\ r.raised = ""
            /\ option_sets' = r.option_sets
    /\ callers' = <<>>
    /\ pc' = "place"
    /\ UNCHANGED <<inputs, rngState, tmpExists, inFlight, scratch, rmtrees, caller, seedIdx, circuitIdx,
                   exitStatus, failure, calls, ret>>

\* sweep(), line 171: build_option_sets raises
SweepBuildRaises ==
    /\ pc = "sweep"
    /\ \E keys \in DictKeys(variable_options) :
         LET r == build_option_sets(variable_options, keys)
         IN /\ r.raised # ""
            /\ option_sets' = r.option_sets
            /\ Exit(1, r.raised)
    /\ UNCHANGED <<inputs, rngState, tmpExists, inFlight, scratch, rmtrees, callers, caller, seedIdx,
                   circuitIdx, calls, ret>>

\* the generator is not seeded again: the list depends on what was drawn before
SeedList_NotReseeded(state, count) == DrawSeeds(state, RandMax, count)

\* the seed list of lines 52-53 and the generator state it leaves; state is
\* the generator state before random.seed(1)
SeedList(state, count) == DrawSeeds(RandomSeed(1), RandMax, count)

\* every configuration is run with the first option set
PlaceAll_FirstOptionSet ==
    /\ pc = "place"
    /\ Len(callers) < Len(option_sets)
    /\ LET option_set == option_sets[1]
           options == fixed_options \o option_set
           new == PlaceCaller(Architecture, CircuitsFolder, circuits)
           drawn == SeedList(rngState, num_random_seeds)
       IN /\ caller' = [new EXCEPT
                          !.command = build_command(new.architecture, new.circuit, options),
                          !.results = EmptyResults(new.circuits),
                          !.hasResults = TRUE,
                          !.seeds = drawn.list,
                          !.hasSeeds = TRUE]
          /\ rngState' = drawn.state
          /\ pc' = IF drawn.list = <<>> THEN "rmtree" ELSE "call"
    /\ seedIdx' = 1
    /\ circuitIdx' = 1
    /\ UNCHANGED <<inputs, tmpExists, inFlight, scratch, rmtrees, option_sets, callers,
                   exitStatus, failure,
                   calls, ret>>

\* sweep() lines 174-177, place_all line 144, call_all_circuits lines 46-53:
\* the next option set gets a new caller with empty results and its seeds
PlaceAll ==
    /\ pc = "place"
    /\ Len(callers) < Len(option_sets)
    /\ LET option_set == option_sets[Len(callers) + 1]
           options == fixed_options \o option_set
           new == PlaceCaller(Architecture, CircuitsFolder, circuits)
           drawn == SeedList(rngState, num_random_seeds)
       IN /\ caller' = [new EXCEPT
                          !.command = build_command(new.architecture, new.circuit, options),
                          !.results = EmptyResults(new.circuits),
                          !.hasResults = TRUE,
                          !.seeds = drawn.list,
                          !.hasSeeds = TRUE]
          /\ rngState' = drawn.state
          /\ pc' = IF drawn.list = <<>> THEN "rmtree" ELSE "call"
    /\ seedIdx' = 1
    /\ circuitIdx' = 1
    /\ UNCHANGED <<inputs, tmpExists, inFlight, scratch, rmtrees, option_sets, callers,
                   exitStatus, failure,
                   calls, ret>>

\* one run of the external tool: what it printed
ToolRuns ==
    {[out |-> o, err |-> <<>>] : o \in Stdouts}
    \cup {[out |-> o, err |-> <<"Exception in thread main">>] :
            o \in {<<>>, <<Line("time", "1"), Line("BB cost", "2"), Line("max delay", "4")>>}}

\* the invocation of lines 64 and 32-41, recorded in the history
Call(run) ==
    [config |-> Len(callers) + 1,
     seed |-> caller.seeds[seedIdx],
     circuit |-> caller.circuits[circuitIdx],
     argv |-> circuit_command(caller.command, caller.circuits[circuitIdx],
                              caller.seeds[seedIdx]),
     out |-> run.out, err |-> run.err]

\* lines 37: Popen starts the tool for the current seed and circuit
Popen ==
    /\ pc = "call"
    /\ pc' = "wait"
    /\ inFlight' = inFlight + 1
    /\ UNCHANGED <<inputs, rngState, tmpExists, scratch, rmtrees, option_sets, callers,
                   caller, seedIdx, circuitIdx, exitStatus, failure, calls, ret>>

\* line 40: communicate() returns when the tool has ended; the tool may have
\* written its place file into 'tmp' (creating the directory)
Invoke(run) ==
    /\ pc = "wait"
    /\ inFlight' = inFlight - 1
    /\ calls' = Append(calls, Call(run))
    /\ \E mk \in BOOLEAN :
         /\ tmpExists' = (tmpExists \/ mk)
         /\ scratch' = IF mk THEN scratch \cup {Len(callers) + 1} ELSE scratch

\* the loops nested the other way round: the seed is the inner loop
Advance_SeedInner ==
    IF seedIdx < Len(caller.seeds)
    THEN /\ seedIdx' = seedIdx + 1
         /\ pc' = "call"
         /\ UNCHANGED circuitIdx
    ELSE /\ seedIdx' = 1
         /\ circuitIdx' = circuitIdx + 1
         /\ pc' = IF circuitIdx < Len(caller.circuits) THEN "call" ELSE "rmtree"

\* the loops of lines 54 and 62 move on
Advance ==
    IF circuitIdx < Len(caller.circuits)
    THEN /\ circuitIdx' = circuitIdx + 1
         /\ pc' = "call"
         /\ UNCHANGED seedIdx
    ELSE /\ circuitIdx' = 1
         /\ seedIdx' = seedIdx + 1
         /\ pc' = IF seedIdx < Len(caller.seeds) THEN "call" ELSE "rmtree"

\* stderr is printed but the loop goes on to the next circuit
CallStderr_Continues ==
    \E run \in ToolRuns :
        /\ Invoke(run)
        /\ run.err # <<>>
        /\ caller' = [caller EXCEPT !.hasCommand = TRUE]
        /\ Advance
        /\ UNCHANGED <<inputs, rngState, option_sets, callers, rmtrees, exitStatus, failure, ret>>

\* lines 64-69: stderr is not empty
CallStderr ==
    \E run \in ToolRuns :
        /\ Invoke(run)
        /\ run.err # <<>>
        /\ caller' = [caller EXCEPT !.hasCommand = TRUE]
        /\ Exit(1, "stderr")
        /\ UNCHANGED <<inputs, rngState, option_sets, callers, rmtrees, seedIdx, circuitIdx, ret>>

\* a stdout that does not match records 0 for every metric and the loop goes on
CallNoMatch_RecordsZero ==
    \E run \in ToolRuns :
        /\ Invoke(run)
        /\ run.err = <<>>
        /\ ~stats_regex(run.out).matched
        /\ caller' = [caller EXCEPT
                        !.hasCommand = TRUE,
                        !.results[caller.circuits[circuitIdx]] =
                            [m \in Range(metrics) |-> Append(@[m], 0)]]
        /\ Advance
        /\ UNCHANGED <<inputs, rngState, option_sets, callers, rmtrees, exitStatus, failure, ret>>

\* lines 72-77: the pattern does not match
CallNoMatch ==
    \E run \in ToolRuns :
        /\ Invoke(run)
        /\ run.err = <<>>
        /\ ~stats_regex(run.out).matched
        /\ caller' = [caller EXCEPT !.hasCommand = TRUE]
        /\ Exit(1, "nomatch")
        /\ UNCHANGED <<inputs, rngState, option_sets, callers, rmtrees, seedIdx, circuitIdx, ret>>

\* lines 79-81: float() raises on one of the groups
CallValueError ==
    \E run \in ToolRuns :
        /\ Invoke(run)
        /\ run.err = <<>>
        /\ stats_regex(run.out).matched
        /\ LET r == AppendMetrics(caller.results, caller.circuits[circuitIdx],
                                  stats_regex(run.out), 1)
           IN /\ r.raised # ""
              /\ caller' = [caller EXCEPT !.hasCommand = TRUE, !.results = r.results]
              /\ Exit(1, r.raised)
        /\ UNCHANGED <<inputs, rngState, option_sets, callers, rmtrees, seedIdx, circuitIdx, ret>>

\* lines 79-81: every metric of the invocation is appended
CallRecord ==
    \E run \in ToolRuns :
        /\ Invoke(run)
        /\ run.err = <<>>
        /\ stats_regex(run.out).matched
        /\ LET r == AppendMetrics(caller.results, caller.circuits[circuitIdx],
                                  stats_regex(run.out), 1)
           IN /\ r.raised = ""
              /\ caller' = [caller EXCEPT !.hasCommand = TRUE, !.results = r.results]
        /\ Advance
        /\ UNCHANGED <<inputs, rngState, option_sets, callers, rmtrees, exitStatus, failure, ret>>

\* the scratch directory is left in place
Rmtree_KeepsScratch ==
    /\ pc = "rmtree"
    /\ tmpExists
    /\ rmtrees' = Append(rmtrees, [config |-> Len(callers) + 1, after |-> Len(calls)])
    /\ callers' = Append(callers, caller)
    /\ caller' = NoCaller
    /\ pc' = "place"
    /\ UNCHANGED <<inputs, rngState, option_sets, seedIdx, circuitIdx, exitStatus,
                   failure, calls, ret, inFlight, tmpExists, scratch>>

\* place_all line 148 and sweep line 178: the scratch directory is removed
\* and the caller joins callers
Rmtree ==
    /\ pc = "rmtree"
    /\ tmpExists
    /\ tmpExists' = FALSE
    /\ scratch' = {}
    /\ rmtrees' = Append(rmtrees, [config |-> Len(callers) + 1, after |-> Len(calls)])
    /\ callers' = Append(callers, caller)
    /\ caller' = NoCaller
    /\ pc' = "place"
    /\ UNCHANGED <<inputs, rngState, option_sets, seedIdx, circuitIdx, exitStatus,
                   failure, calls, ret, inFlight>>

\* place_all line 148: shutil.rmtree raises when 'tmp' does not exist
RmtreeRaises ==
    /\ pc = "rmtree"
    /\ ~tmpExists
    /\ Exit(1, "OSError")
    /\ UNCHANGED <<inputs, rngState, tmpExists, inFlight, scratch, rmtrees, option_sets, callers, caller,
                   seedIdx, circuitIdx, calls, ret>>

\* sweep() returns: the loop of line 174 is over
SweepReturn ==
    /\ pc = "place"
    /\ Len(callers) = Len(option_sets)
    /\ pc' = "idle"
    /\ UNCHANGED <<inputs, rngState, tmpExists, inFlight, scratch, rmtrees, option_sets, callers, caller,
                   seedIdx, circuitIdx, exitStatus, failure, calls, ret>>

\* an accessor returned, or raised an exception that ends the process
Returned(r) ==
    /\ ret' = r
    /\ IF r.raised = "" THEN UNCHANGED <<pc, exitStatus, failure>>
       ELSE Exit(1, r.raised)
    /\ UNCHANGED <<inputs, rngState, tmpExists, inFlight, scratch, rmtrees, option_sets, callers, caller,
                   seedIdx, circuitIdx, calls>>

GetGeomean ==
    /\ pc = "idle"
    /\ \E i \in DOMAIN callers, k \in DOMAIN metrics :
         Returned([NoRet EXCEPT !.op = "get_geomean", !.idx = i, !.metric = metrics[k],
                                !.pooled = metric_results(callers[i], metrics[k]),
                                !.value = get_geomean(callers[i], metrics[k])])

GetGeomeans ==
    /\ pc = "idle"
    /\ \E i \in DOMAIN callers :
         Returned([NoRet EXCEPT !.op = "get_geomeans", !.idx = i,
                                !.rows = <<get_geomeans(callers[i])>>])

GetParetoTable ==
    /\ pc = "idle"
    /\ \E k \in DOMAIN metrics :
         Returned([NoRet EXCEPT !.op = "get_pareto_table", !.metric = metrics[k],
                                !.rows = get_pareto_table(option_sets, callers, metrics[k])])

GetResults ==
    /\ pc = "idle"
    /\ \E i \in DOMAIN callers :
         LET r == get_results(callers[i])
         IN Returned([NoRet EXCEPT !.op = "get_results", !.idx = i,
                                   !.raised = r.raised, !.rows = r.rows])

CallerSaveResults ==
    /\ pc = "idle"
    /\ \E i \in DOMAIN callers :
         LET r == caller_save_results(callers[i])
         IN Returned([NoRet EXCEPT !.op = "Caller.save_results", !.idx = i,
                                   !.raised = r.raised, !.rows = r.rows])

SweeperSaveResults ==
    /\ pc = "idle"
    /\ LET r == sweeper_save_results(option_sets, callers)
       IN Returned([NoRet EXCEPT !.op = "ParameterSweeper.save_results",
                                 !.raised = r.raised, !.rows = r.rows])

Next ==
    \/ SweepBuild
    \/ SweepBuildRaises
    \/ PlaceAll
    \/ Popen
    \/ CallStderr
    \/ CallNoMatch
    \/ CallValueError
    \/ CallRecord
    \/ Rmtree
    \/ RmtreeRaises
    \/ SweepReturn
    \/ GetGeomean
    \/ GetGeomeans
    \/ GetParetoTable
    \/ GetResults
    \/ CallerSaveResults
    \/ SweeperSaveResults

Spec == Init /\ [][Next]_vars

-----------------------------------------------------------------------------
(* build_option_sets on its own: every declared mapping, one call *)

InitBuild ==
    /\ circuits = <<"a">>
    /\ fixed_options \in FixedOptions
    /\ variable_options \in OptionRanges
    /\ num_random_seeds = 0
    /\ rngState = 0
    /\ tmpExists = FALSE
    /\ option_sets = <<>>
    /\ callers = <<>>
    /\ caller = NoCaller
    /\ seedIdx = 0
    /\ circuitIdx = 0
    /\ pc = "sweep"
    /\ exitStatus = -1
    /\ failure = ""
    /\ calls = <<>>
    /\ ret = NoRet
    /\ inFlight = 0
    /\ scratch = IF tmpExists THEN {0} ELSE {}
    /\ rmtrees = <<>>

NextBuild == SweepBuild \/ SweepBuildRaises

SpecBuild == InitBuild /\ [][NextBuild]_vars

-----------------------------------------------------------------------------
(* What the history says the result tables must hold *)

\* the invocation printed nothing on stderr, matched, and every group parsed
Succeeded(call) ==
    /\ call.err = <<>>
    /\ stats_regex(call.out).matched
    /\ \A k \in DOMAIN metrics :
         ParseFloat(Group(stats_regex(call.out), GroupName(metrics[k]))).ok

Extracted(call, metric) ==
    ParseFloat(Group(stats_regex(call.out), GroupName(metric))).v

\* the values the successful invocations 1..n of configuration cfg extracted
\* for one circuit and metric, in invocation order
RECURSIVE Replay(_, _, _, _)
Replay(n, cfg, circuit, metric) ==
    IF n = 0 THEN <<>>
    ELSE LET before == Replay(n - 1, cfg, circuit, metric)
         IN IF calls[n].config = cfg /\ calls[n].circuit = circuit /\ Succeeded(calls[n])
            THEN Append(before, Extracted(calls[n], metric))
            ELSE before

\* the result table of configuration cfg holds exactly the samples of the
\* successful invocations among the first n
HoldsReplay(c, cfg, n) ==
    \A circuit \in DOMAIN c.results : \A k \in DOMAIN metrics :
        c.results[circuit][metrics[k]] = Replay(n, cfg, circuit, metrics[k])

\* work the sweep still had to do when the process stopped
WorkLeft ==
    \/ circuitIdx < Len(caller.circuits)
    \/ seedIdx < Len(caller.seeds)
    \/ Len(callers) + 1 < Len(option_sets)

-----------------------------------------------------------------------------
(* Claims *)

\* C1: an invocation with non-empty stderr is the last invocation of the
\* process: the process has exited with status 1, no invocation follows it,
\* and the result tables hold only the samples of the invocations before it
\* (none of the failing one).
C1_StderrAbortsRun ==
    \A k \in DOMAIN calls :
        calls[k].err # <<>> =>
            /\ k = Len(calls)
            /\ pc = "exited"
            /\ exitStatus = 1
            /\ HoldsReplay(caller, calls[k].config, k - 1)
            /\ Len(callers) = calls[k].config - 1
            /\ \A i \in DOMAIN callers : HoldsReplay(callers[i], i, k - 1)

C1_Witness ==
    /\ failure = "stderr"
    /\ Len(calls) >= 2
    /\ stats_regex(calls[Len(calls)].out).matched
    /\ WorkLeft

\* the seed list of a run with N seeds: what a generator seeded with 1 yields
SeedsOfRun(N) == DrawSeeds(RandomSeed(1), RandMax, N).list

\* C2: every caller of a sweep (finished or running) has the same seed list,
\* of exactly num_random_seeds entries, and the list depends on nothing but
\* num_random_seeds (not on the state the generator was in when the process
\* started, nor on the configurations run before).
C2_SameSeedsEverywhere ==
    LET cs == callers \o (IF caller.hasSeeds THEN <<caller>> ELSE <<>>)
    IN \A i, j \in DOMAIN cs :
        /\ cs[i].seeds = cs[j].seeds
        /\ Len(cs[i].seeds) = num_random_seeds
        /\ cs[i].seeds = SeedsOfRun(num_random_seeds)

C2_Witness ==
    /\ pc = "idle"
    /\ Len(callers) >= 2
    /\ num_random_seeds = 2
    /\ callers[1].seeds[1] # callers[1].seeds[2]
    /\ callers[2].seeds = callers[1].seeds

\* C3: an invocation with empty stderr whose stdout does not match is the
\* last invocation of the process: the process has exited with status 1, no
\* invocation follows it, nothing was appended for it and the samples of the
\* earlier invocations are what they were.
C3_NoMatchAbortsRun ==
    \A k \in DOMAIN calls :
        (calls[k].err = <<>> /\ ~stats_regex(calls[k].out).matched) =>
            /\ k = Len(calls)
            /\ pc = "exited"
            /\ exitStatus = 1
            /\ HoldsReplay(caller, calls[k].config, k - 1)
            /\ \A i \in DOMAIN callers : HoldsReplay(callers[i], i, k - 1)

C3_Witness ==
    /\ failure = "nomatch"
    /\ Len(calls) >= 2
    /\ calls[Len(calls)].out # <<>>
    /\ \E circuit \in DOMAIN caller.results : caller.results[circuit]["runtime"] # <<>>
    /\ WorkLeft

\* every caller that has a result table: the finished ones and the running one
AllCallers == callers \o (IF caller.hasResults THEN <<caller>> ELSE <<>>)

\* C4: every sample stored in a result table is strictly greater than 0 (a
\* captured text that converts to zero or to a negative number aborts the
\* run and is not recorded).
C4_SamplesPositive ==
    \A i \in DOMAIN AllCallers :
        \A circuit \in DOMAIN AllCallers[i].results : \A k \in DOMAIN metrics :
            \A n \in DOMAIN AllCallers[i].results[circuit][metrics[k]] :
                AllCallers[i].results[circuit][metrics[k]][n] > 0

\* the option sets of a mapping, enumerated in declaration order
DeclaredOptionSets(option_ranges) ==
    LET values == Product([i \in 1..Len(option_ranges) |-> option_ranges[i].range])
    IN [t \in 1..Len(values) |->
           Flatten([i \in 1..Len(option_ranges) |->
                       <<option_ranges[i].name, PyStr(values[t][i])>>])]

\* C5: once build_option_sets has run, option_sets is the cartesian product
\* of the ranges with the options in declaration order and the last-declared
\* option varying fastest, each option set being name_1, value_1, name_2, ...
C5_DeclaredOrderProduct ==
    pc # "sweep" =>
        /\ failure = ""
        /\ option_sets = DeclaredOptionSets(variable_options)

\* C6: the pareto table of metric M after a completed sweep with K option
\* sets: a header row M followed by the K renderings, then K data rows; data
\* row r (1-based) has r+1 cells: the runtime geomean of configuration r,
\* r-1 blank cells, and the geomean of M of configuration r as last cell.
C6_ParetoStaircase ==
    ret.op = "get_pareto_table" =>
        LET K == Len(option_sets)
            rows == ret.rows
        IN /\ ret.raised = ""
           /\ Len(rows) = K + 1
           /\ Len(rows[1]) = K + 1
           /\ rows[1][1] = Text(<<ret.metric>>)
           /\ \A i \in 1..K : rows[1][i + 1] = Text(Join(option_sets[i], <<" ">>))
           /\ \A r \in 1..K :
                LET row == rows[r + 1]
                IN /\ Len(row) = r + 1
                   /\ row[1] = get_geomean(callers[r], "runtime")
                   /\ \A j \in 2..r : row[j] = Blank
                   /\ row[r + 1] = get_geomean(callers[r], ret.metric)
           /\ \A r1, r2 \in 1..K : r1 # r2 => Len(rows[r1 + 1]) # Len(rows[r2 + 1])

C6_Witness ==
    /\ ret.op = "get_pareto_table"
    /\ ret.metric = "BB cost"
    /\ Len(callers) = 2
    /\ Len(ret.rows) = 3
    /\ ret.rows[3][3].k = "pow2"
    /\ ret.rows[2][2] # ret.rows[3][3]

\* all samples of a metric, those of every distinct circuit once
PooledOnce(c, metric) ==
    LET names == SortedStrs(DOMAIN c.results)
    IN Flatten([i \in 1..Len(names) |-> c.results[names[i]][metric]])

\* the report table of one configuration as the claim describes it
ReportTable(c) ==
    LET names == SortedStrs(DOMAIN c.results)
    IN << <<Text(<<"benchmark">>)>>
          \o [k \in 1..Len(metrics) |-> Text(<<metrics[k]>>)]
          \o <<Text(Join(c.command, <<" ">>))>> >>
       \o [i \in 1..Len(names) |->
             <<Text(names[i])>>
             \o [k \in 1..Len(metrics) |-> Gmean(c.results[names[i]][metrics[k]])]]
       \o <<BlankRow>>
       \o << <<Text(<<"geomeans">>)>>
             \o [k \in 1..Len(metrics) |-> Gmean(PooledOnce(c, metrics[k]))] >>

\* C7: Caller.save_results of a configuration of a completed sweep (with at
\* least one seed) succeeds and writes the header row, one row per circuit
\* with the geometric mean of that circuit's samples per metric, a blank row
\* and the 'geomeans' row.
C7_CallerReportTable ==
    (ret.op = "Caller.save_results" /\ num_random_seeds >= 1) =>
        /\ ret.raised = ""
        /\ ret.rows = ReportTable(callers[ret.idx])

\* blocks of rows with exactly one blank row between consecutive blocks
RECURSIVE JoinBlocks(_)
JoinBlocks(blocks) ==
    IF blocks = <<>> THEN <<>>
    ELSE IF Len(blocks) = 1 THEN blocks[1]
    ELSE blocks[1] \o <<BlankRow>> \o JoinBlocks(Tail(blocks))

\* C8: ParameterSweeper.save_results after a completed sweep (with at least
\* one option set and one seed) writes the seed list row, the pareto table of
\* 'BB cost', the pareto table of 'max delay' and the full report table of
\* every configuration in option-set order, with exactly one blank row
\* between consecutive blocks.
C8_FinalReport ==
    (ret.op = "ParameterSweeper.save_results" /\ callers # <<>> /\ num_random_seeds >= 1) =>
        /\ ret.raised = ""
        /\ ret.rows =
            JoinBlocks(
                << << <<Text(<<"Random seeds: ">>
                        \o Join([i \in 1..num_random_seeds |->
                                    <<ToString(SeedsOfRun(num_random_seeds)[i])>>],
                                <<", ">>))>> >>,
                   get_pareto_table(option_sets, callers, "BB cost"),
                   get_pareto_table(option_sets, callers, "max delay") >>
                \o [i \in 1..Len(callers) |-> ReportTable(callers[i])])

\* C9: get_results on a configuration of a completed sweep (with at least
\* one seed) returns, after the header, one row per distinct circuit in
\* ascending order of name.
C9_CircuitRowsSorted ==
    (ret.op = "get_results" /\ num_random_seeds >= 1) =>
        LET names == SortedStrs(Range(Split(circuits, " ")))
        IN /\ ret.raised = ""
           /\ Len(ret.rows) = 1 + Len(names)
           /\ \A i \in 1..Len(names) : ret.rows[i + 1][1] = Text(names[i])

\* number of times v occurs in a sequence
Count(seq, v) == Cardinality({i \in DOMAIN seq : seq[i] = v})

\* C10: the sequence get_geomean takes the geometric mean of holds every
\* recorded sample of the metric exactly once: as many values as were
\* recorded, every value as often as it was recorded.
C10_PooledExactlyOnce ==
    ret.op = "get_geomean" =>
        LET once == PooledOnce(callers[ret.idx], ret.metric)
        IN /\ Len(ret.pooled) = Len(once)
           /\ \A v \in Range(once) \cup Range(ret.pooled) :
                Count(ret.pooled, v) = Count(once, v)
           /\ ret.value = Gmean(once)

\* C11: the cleanup at the end of a configuration's run is a no-op when the
\* scratch directory does not exist: a process is never ended by the cleanup
\* while the directory is missing (an OSError ends it only for another cause).
C11_CleanupIdempotent ==
    (pc = "exited" /\ failure = "OSError") => tmpExists

-----------------------------------------------------------------------------
(* Template substitution on its own: call_all_circuits(command, N) on a    *)
(* caller of one circuit, for every small command template                 *)

TemplateAtoms == {"x", "{circuit}", "{seed}"}
Templates == SeqsUpTo(SeqsUpTo(TemplateAtoms, MaxTokenLen), MaxTokens)

\* circuit names, also names that spell a placeholder
PlaceholderNames == SeqsUpTo({"a", "{circuit}", "{seed}"}, MaxNameLen)

InitSubst ==
    /\ circuits \in PlaceholderNames
    /\ fixed_options \in FixedOptions
    /\ variable_options = <<>>
    /\ num_random_seeds = MaxSeeds
    /\ rngState = 0
    /\ tmpExists = FALSE
    /\ option_sets = << <<>> >>
    /\ callers = <<>>
    /\ \E command \in Templates :
         LET new == PlaceCaller(Architecture, CircuitsFolder, circuits)
         IN caller = [new EXCEPT !.command = command,
                                 !.results = EmptyResults(new.circuits),
                                 !.hasResults = TRUE,
                                 !.seeds = SeedList(rngState, num_random_seeds).list,
                                 !.hasSeeds = TRUE]
    /\ seedIdx = 1
    /\ circuitIdx = 1
    /\ pc = "call"
    /\ exitStatus = -1
    /\ failure = ""
    /\ calls = <<>>
    /\ ret = NoRet
    /\ inFlight = 0
    /\ scratch = {}
    /\ rmtrees = <<>>

NextSubst == Popen \/ CallStderr \/ CallNoMatch \/ CallValueError \/ CallRecord

SpecSubst == InitSubst /\ [][NextSubst]_vars

\* a token with every placeholder replaced at once: {circuit} by the name,
\* {seed} by the decimal seed, every other atom kept
Substituted(token, name, seed) ==
    Flatten([i \in 1..Len(token) |->
                IF token[i] = "{circuit}" THEN name
                ELSE IF token[i] = "{seed}" THEN <<ToString(seed)>>
                ELSE <<token[i]>>])

\* the command line of invocation n is the template with both placeholders
\* replaced in every token, token by token, and two tokens joined into one
\* give the joined text
SubstitutedCall(n) ==
    LET template == caller.command
        argv == calls[n].argv
    IN /\ Len(argv) = Len(template)
       /\ \A i \in DOMAIN template :
            argv[i] = Substituted(template[i], calls[n].circuit, calls[n].seed)
       /\ \A i, j \in DOMAIN template :
            circuit_command(<<template[i] \o template[j]>>, calls[n].circuit,
                            calls[n].seed)[1] = argv[i] \o argv[j]

\* C12 as stated: for every circuit name and seed, the command line of every
\* invocation has {circuit} replaced by the circuit name and {seed} by the
\* decimal seed in every token, the tokens kept in number and order and all
\* other text unchanged, the same for placeholders in one token or in two.
C12_SubstitutionAnyName ==
    \A n \in DOMAIN calls : SubstitutedCall(n)

\* C12 amended: the same for every circuit name that does not contain the
\* text {seed}.
C12_SubstitutionPlainName ==
    \A n \in DOMAIN calls :
        "{seed}" \notin Range(calls[n].circuit) => SubstitutedCall(n)

C12_Witness ==
    /\ Len(calls) = 2
    /\ calls[1].seed # calls[2].seed
    /\ calls[2].circuit = <<"a">>
    /\ Len(caller.command) = 2
    /\ caller.command[1] = <<"{circuit}", "{seed}">>
    /\ calls[2].argv[1] = <<"a", ToString(calls[2].seed)>>

-----------------------------------------------------------------------------
(* The samples of a completed run *)

\* the callers whose call_all_circuits has returned, by configuration
CompletedRuns ==
    callers \o (IF pc = "rmtree" \/ failure = "OSError" THEN <<caller>> ELSE <<>>)

\* the invocations of configuration cfg for one circuit name, in order
InvocationsOf(cfg, circuit) ==
    SelectSeq(calls, LAMBDA call : call.config = cfg /\ call.circuit = circuit)

\* C13 as stated: after a configuration's run completes with N seeds, for
\* every circuit of the circuit list and every metric the sample sequence has
\* exactly N entries, and its k-th entry is the value extracted from the
\* invocation of that circuit with the k-th seed.
C13_OneSamplePerSeed ==
    \A i \in DOMAIN CompletedRuns :
        LET c == CompletedRuns[i]
        IN \A circuit \in Range(c.circuits) : \A m \in DOMAIN metrics :
            LET samples == c.results[circuit][metrics[m]]
                own == InvocationsOf(i, circuit)
            IN /\ Len(samples) = num_random_seeds
               /\ \A k \in DOMAIN samples : \A n \in DOMAIN own :
                    own[n].seed = c.seeds[k] =>
                        samples[k] = Extracted(own[n], metrics[m])

\* C13 amended: after a configuration's run completes with N seeds, for
\* every circuit and every metric the sample sequence has exactly N * t
\* entries, t the number of times the circuit is named in the circuit list;
\* the entries are the values extracted from the invocations of that circuit
\* in invocation order, the entries (k-1)*t+1 .. k*t from the invocations
\* with the k-th seed.  For a circuit named once this is exactly N entries,
\* the k-th from the invocation with the k-th seed.
C13_SamplesPerSeedAndMention ==
    \A i \in DOMAIN CompletedRuns :
        LET c == CompletedRuns[i]
        IN \A circuit \in Range(c.circuits) : \A m \in DOMAIN metrics :
            LET samples == c.results[circuit][metrics[m]]
                own == InvocationsOf(i, circuit)
                t == Count(c.circuits, circuit)
            IN /\ Len(samples) = num_random_seeds * t
               /\ Len(own) = Len(samples)
               /\ \A j \in DOMAIN samples :
                    /\ samples[j] = Extracted(own[j], metrics[m])
                    /\ own[j].seed = c.seeds[((j - 1) \div t) + 1]

C13_Witness ==
    /\ pc = "idle"
    /\ num_random_seeds = 2
    /\ Len(callers) = 1
    /\ callers[1].seeds[1] # callers[1].seeds[2]
    /\ \E c1, c2 \in Range(callers[1].circuits) :
         /\ c1 # c2
         /\ Len(callers[1].results[c1]["runtime"]) = 2
         /\ callers[1].results[c1]["runtime"][1] # callers[1].results[c1]["runtime"][2]
         /\ Len(callers[1].results[c2]["BB cost"]) = 2

-----------------------------------------------------------------------------
(* callers against option_sets *)

\* the invocations of configuration cfg, in order
InvocationsOfConfig(cfg) == SelectSeq(calls, LAMBDA call : call.config = cfg)

\* the last n tokens of a command line
LastTokens(argv, n) == SubSeq(argv, Len(argv) - n + 1, Len(argv))

\* C14: at every point of a sweep callers holds only callers whose run made
\* all of its invocations (one per circuit entry and seed, every one
\* recorded), len(callers) <= len(option_sets), and callers[i] was run with
\* fixed_options followed by option_sets[i]; once sweep has returned
\* len(callers) = len(option_sets), and pareto header column i+1 names
\* option_sets[i] while pareto row i holds the geomeans of callers[i].
C14_CallersMatchOptionSets ==
    /\ Len(callers) <= Len(option_sets)
    /\ \A i \in DOMAIN callers :
         LET c == callers[i]
             own == InvocationsOfConfig(i)
             options == fixed_options \o option_sets[i]
             command == build_command(c.architecture, c.circuit, options)
         IN /\ Len(own) = Len(c.circuits) * num_random_seeds
            /\ c.command = command
            /\ \A n \in DOMAIN own :
                 /\ Succeeded(own[n])
                 /\ LastTokens(own[n].argv, Len(options)) = options
    /\ pc = "idle" => Len(callers) = Len(option_sets)
    /\ ret.op = "get_pareto_table" =>
         \A i \in DOMAIN callers :
            /\ ret.rows[1][i + 1] = Text(Join(option_sets[i], <<" ">>))
            /\ ret.rows[i + 1][i + 1] = get_geomean(callers[i], ret.metric)

C14_Witness ==
    /\ ret.op = "get_pareto_table"
    /\ Len(callers) = 2
    /\ option_sets[1] # option_sets[2]
    /\ Len(InvocationsOfConfig(1)) >= 1
    /\ Len(InvocationsOfConfig(2)) >= 1
    /\ callers[1].command # callers[2].command

-----------------------------------------------------------------------------
(* Order of the invocations *)

\* C15: at most one external process is in flight at any time; the n-th
\* invocation of the sweep belongs to configuration ((n-1) div (N*C)) + 1,
\* and within a configuration the invocations run through the seeds in the
\* order of the seed sequence (outer loop) and, for each seed, through the
\* entries of the circuit list in list order (inner loop), one invocation
\* per entry and seed; so all invocations of option set i precede those of
\* option set i+1.
C15_SequentialSeedOuter ==
    LET names == Split(circuits, " ")
        C == Len(names)
        per == num_random_seeds * C
    IN /\ inFlight \in {0, 1}
       /\ inFlight = 1 <=> pc = "wait"
       /\ \A n \in DOMAIN calls :
            /\ calls[n].config = ((n - 1) \div per) + 1
            /\ calls[n].seed = SeedsOfRun(num_random_seeds)[(((n - 1) % per) \div C) + 1]
            /\ calls[n].circuit = names[((n - 1) % C) + 1]
       /\ \A n1, n2 \in DOMAIN calls : n1 < n2 => calls[n1].config <= calls[n2].config

C15_Witness ==
    /\ pc = "wait"
    /\ inFlight = 1
    /\ Len(calls) = 3
    /\ num_random_seeds = 2
    /\ calls[1].seed = calls[2].seed
    /\ calls[1].circuit # calls[2].circuit
    /\ calls[3].seed # calls[1].seed
    /\ calls[3].circuit = calls[1].circuit

-----------------------------------------------------------------------------
(* The scratch directory *)

\* C16: the scratch directory is removed once for every configuration that
\* joined callers, after that configuration's last invocation and before
\* the first invocation of the next one; while an invocation of a
\* configuration runs, the scratch directory holds no file written by an
\* earlier configuration.
C16_ScratchRemovedBetweenConfigs ==
    LET per == num_random_seeds * Len(Split(circuits, " "))
    IN /\ Len(rmtrees) = Len(callers)
       /\ \A i \in DOMAIN rmtrees :
            /\ rmtrees[i].config = i
            /\ rmtrees[i].after = i * per
            /\ \A n \in DOMAIN calls :
                 /\ calls[n].config <= i => n <= rmtrees[i].after
                 /\ calls[n].config > i => n > rmtrees[i].after
       /\ pc = "wait" =>
            \A cfg \in scratch : cfg = Len(callers) + 1 \/ (cfg = 0 /\ callers = <<>>)
       /\ scratch # {} => tmpExists

C16_Witness ==
    /\ pc = "wait"
    /\ Len(callers) = 1
    /\ rmtrees[1].after = 2
    /\ Len(calls) = 3
    /\ scratch = {2}

-----------------------------------------------------------------------------
(* A caller that is run a second time: after the sweep, place_all is       *)
(* called again on the last caller with the options of its option set.     *)
(* While it runs the caller is held in the variable caller, as in its      *)
(* first run, and joins callers again when place_all returns.              *)

\* the second run goes on with the samples of the first
PlaceAllAgain_KeepsSamples ==
    /\ pc = "idle"
    /\ ret = NoRet
    /\ callers # <<>>
    /\ Len(calls) + num_random_seeds * Len(Split(circuits, " ")) <= MaxCalls
    /\ LET last == callers[Len(callers)]
           options == fixed_options \o option_sets[Len(callers)]
           drawn == SeedList(rngState, num_random_seeds)
       IN /\ caller' = [last EXCEPT
                          !.command = build_command(last.architecture, last.circuit, options),
                          !.seeds = drawn.list,
                          !.hasSeeds = TRUE]
          /\ rngState' = drawn.state
          /\ pc' = IF drawn.list = <<>> THEN "rmtree" ELSE "call"
    /\ callers' = SubSeq(callers, 1, Len(callers) - 1)
    /\ seedIdx' = 1
    /\ circuitIdx' = 1
    /\ UNCHANGED <<inputs, tmpExists, inFlight, scratch, rmtrees, option_sets,
                   exitStatus, failure, calls, ret>>

\* place_all line 144 and call_all_circuits lines 46-53 on a caller that has
\* run before
PlaceAllAgain ==
    /\ pc = "idle"
    /\ ret = NoRet
    /\ callers # <<>>
    /\ Len(calls) + num_random_seeds * Len(Split(circuits, " ")) <= MaxCalls
    /\ LET last == callers[Len(callers)]
           options == fixed_options \o option_sets[Len(callers)]
           drawn == SeedList(rngState, num_random_seeds)
       IN /\ caller' = [last EXCEPT
                          !.command = build_command(last.architecture, last.circuit, options),
                          !.results = EmptyResults(last.circuits),
                          !.hasResults = TRUE,
                          !.seeds = drawn.list,
                          !.hasSeeds = TRUE]
          /\ rngState' = drawn.state
          /\ pc' = IF drawn.list = <<>> THEN "rmtree" ELSE "call"
    /\ callers' = SubSeq(callers, 1, Len(callers) - 1)
    /\ seedIdx' = 1
    /\ circuitIdx' = 1
    /\ UNCHANGED <<inputs, tmpExists, inFlight, scratch, rmtrees, option_sets,
                   exitStatus, failure, calls, ret>>

NextRerun == Next \/ PlaceAllAgain

SpecRerun == Init /\ [][NextRerun]_vars

IsPrefix(a, b) == Len(a) <= Len(b) /\ SubSeq(b, 1, Len(a)) = a

\* C17: a run starts with an empty sample sequence for every circuit and
\* metric, also the second run of a caller; while it runs every sample
\* sequence only grows at its end; the table a finished run leaves is the
\* one the caller keeps, and no accessor or report operation (get_results,
\* get_geomean, get_geomeans, get_pareto_table, both save_results) changes
\* any table.
C17_ResultsLifecycle ==
    [][ /\ (pc \in {"place", "idle"} /\ pc' \in {"call", "rmtree"}) =>
              /\ caller'.hasResults
              /\ DOMAIN caller'.results = Range(caller'.circuits)
              /\ \A circuit \in DOMAIN caller'.results : \A k \in DOMAIN metrics :
                    caller'.results[circuit][metrics[k]] = <<>>
        /\ (pc \in {"call", "wait"}) =>
              /\ caller'.hasResults
              /\ DOMAIN caller'.results = DOMAIN caller.results
              /\ \A circuit \in DOMAIN caller.results : \A k \in DOMAIN metrics :
                    IsPrefix(caller.results[circuit][metrics[k]],
                             caller'.results[circuit][metrics[k]])
        /\ (pc = "rmtree" /\ pc' = "place") =>
              callers'[Len(callers')].results = caller.results
        /\ \A i \in DOMAIN callers \cap DOMAIN callers' :
              callers'[i].results = callers[i].results
        /\ ret' # ret => (callers' = callers /\ caller' = caller /\ pc = "idle")
      ]_vars

C17_Witness ==
    /\ ret.op = "get_geomeans"
    /\ pc = "idle"
    /\ Len(callers) = 1
    /\ num_random_seeds = 2
    /\ Len(calls) = 4
    /\ Len(callers[1].circuits) = 1
    /\ Len(callers[1].results[callers[1].circuits[1]]["runtime"]) = 2

-----------------------------------------------------------------------------
(* Recording one invocation *)

\* all metric sequences of every circuit of caller c have the same length
SameLengths(c) ==
    \A circuit \in DOMAIN c.results : \A k1, k2 \in DOMAIN metrics :
        Len(c.results[circuit][metrics[k1]]) = Len(c.results[circuit][metrics[k2]])

\* the position in metrics of the first group of a call that does not convert
FirstBadGroup(call) ==
    CHOOSE k \in DOMAIN metrics :
        /\ ~ParseFloat(Group(stats_regex(call.out), GroupName(metrics[k]))).ok
        /\ \A j \in 1..(k - 1) :
              ParseFloat(Group(stats_regex(call.out), GroupName(metrics[j]))).ok

\* C18 as stated: in every reachable state, also the one a fatal
\* number-parse failure leaves, all metric sequences of a circuit have the
\* same length.
C18_AllOrNothing ==
    \A i \in DOMAIN AllCallers : SameLengths(AllCallers[i])

\* C18 amended: in every reachable state other than the one left by a fatal
\* number-parse failure all metric sequences of a circuit have the same
\* length; in the state a parse failure leaves, the metrics listed before the
\* malformed group hold one sample more for the circuit of the failing
\* invocation (the values converted before the failure stay recorded), and
\* every other sequence is as it was before that invocation.
C18_AllOrNothingUnlessParseFailure ==
    /\ failure # "ValueError" => \A i \in DOMAIN AllCallers : SameLengths(AllCallers[i])
    /\ failure = "ValueError" =>
         LET last == calls[Len(calls)]
             bad == FirstBadGroup(last)
         IN /\ \A i \in DOMAIN callers : SameLengths(callers[i])
            /\ \A circuit \in DOMAIN caller.results : \A k \in DOMAIN metrics :
                 LET before == Replay(Len(calls) - 1, last.config, circuit, metrics[k])
                 IN caller.results[circuit][metrics[k]] =
                        IF circuit = last.circuit /\ k < bad
                        THEN Append(before, Extracted(last, metrics[k]))
                        ELSE before

C18_Witness ==
    /\ failure = "ValueError"
    /\ Len(calls) >= 2
    /\ LET circuit == calls[Len(calls)].circuit
       IN /\ Len(caller.results[circuit]["runtime"]) = 2
          /\ Len(caller.results[circuit]["BB cost"]) = 1
          /\ Len(caller.results[circuit]["max delay"]) = 1

-----------------------------------------------------------------------------
(* Size of the option sets *)

\* C19: once build_option_sets has run it has produced exactly the product
\* of the range sizes many option sets, each of 2 * (number of option names)
\* tokens; an empty mapping gives exactly one empty option set and a mapping
\* with an empty range gives none.
C19_ProductOfRangeSizes ==
    pc # "sweep" =>
        /\ failure = ""
        /\ Len(option_sets) = NumOptionSets(variable_options)
        /\ \A i \in DOMAIN option_sets : Len(option_sets[i]) = 2 * Len(variable_options)
        /\ variable_options = <<>> => option_sets = << <<>> >>
        /\ (\E i \in DOMAIN variable_options : variable_options[i].range = <<>>) =>
              option_sets = <<>>

\* the same unless keys() cannot be subscripted
C19_ProductOfRangeSizesIfBuilt ==
    (pc # "sweep" /\ failure = "") =>
        /\ Len(option_sets) = NumOptionSets(variable_options)
        /\ \A i \in DOMAIN option_sets : Len(option_sets[i]) = 2 * Len(variable_options)

\* the edge cases: an empty mapping or an empty range never raises
C19_EdgeCases ==
    (pc # "sweep" /\ NumOptionSets(variable_options) * Len(variable_options) = 0) =>
        /\ failure = ""
        /\ Len(option_sets) = NumOptionSets(variable_options)
        /\ \A i \in DOMAIN option_sets : option_sets[i] = <<>>

====
